---------------------------- MODULE Spec2Model ----------------------------
(***************************************************************************)
(* A model of the cloud-gate CQL proxy (package filter, CQLProxy) and of   *)
(* the goroutines it runs: the controller (migrationLoop), the control     *)
(* connection handler (handleMigrationCommunication / handleUpdate), one   *)
(* executor per Start and table (consumeQueue) and, per client connection, *)
(* the connection handler and its client-to-upstream forwarder (forward,   *)
(* mirrorData and the query handlers).                                     *)
(*                                                                         *)
(* Goroutines interleave at the granularity of their blocking points and   *)
(* of their unsynchronised reads and writes.  A critical section of        *)
(* proxy.lock that cannot block is one step.  A Go mutex has no owner:     *)
(* Unlock releases whoever locked it, and Unlock of an unlocked mutex is a *)
(* fatal runtime error (the process dies: crashed).  A nil-pointer         *)
(* dereference is a panic that no goroutine recovers (crashed).            *)
(*                                                                         *)
(* loadMigrationInfo replaces the maps p.queues and p.queueLocks by fresh  *)
(* channels and mutexes, so a channel or a mutex is identified by the      *)
(* number of the Start that made it (a generation, 1..MaxStarts); a        *)
(* goroutine blocked on a channel or a mutex stays on the object it        *)
(* evaluated when it made the call.                                        *)
(*                                                                         *)
(* forward is modelled twice: frame by frame, for the mirror path, and     *)
(* byte by byte for connection 1 (sent, data, written), for the way        *)
(* frames are cut out of the bytes read and written to the origin.         *)
(***************************************************************************)
EXTENDS Integers, Sequences, FiniteSets, TLC

\* ------------------------------------------------------------------ bounds
\* Client connections the listener accepts.
NumConns == 2
\* Frames the clients send, over all connections.
MaxFrames == 3
\* Capacity of a table's channel; stands for queueSize (1000): the code only
\* distinguishes a full channel from one with room.
QueueCap == 1
\* Start updates the control connection delivers.
MaxStarts == 2
\* Frames the clients send in SpecRestart and SpecPause.
MaxMirrored == 2

\* Frames the client sends in SpecBytes, and the longest body of one.
MaxWireFrames == 3
MaxBody == 1

Conns == 1..NumConns
Gens == 1..MaxStarts
Tables == {"t1"}

\* migration.Step: the proxy only compares a step with LoadingDataComplete.
WaitingToLoad == "WaitingToLoad"
LoadingDataComplete == "LoadingDataComplete"
Steps == {WaitingToLoad, LoadingDataComplete}

\* The QueryTypes the model's frames are given.
INSERT == "INSERT"
UPDATE == "UPDATE"
DELETE == "DELETE"
TRUNCATE == "TRUNCATE"
PREPARE == "PREPARE"
MISC == "MISC"

\* The query types whose handlers pause a table.
PauseTypes == {UPDATE, DELETE, TRUNCATE}

\* execute: number of write attempts of the retry loop.
maxAttempts == 5
\* execute: the delay after a failed attempt, in milliseconds.
retryDelayMs == 500

\* The length of a frame's header and the largest buffer forward peels
\* frames from.
cassHdrLen == 9
cassMaxLen == 268435456
\* forward: the size of the buffer passed to src.Read.
bufLen == 65535

\* updates.Update: the types of the control messages; Other is a type
\* handleUpdate has no case for.
UpdateTypes == {"Start", "TableUpdate", "Complete", "Shutdown", "Other"}
Msgs == [type : UpdateTypes, envOk : BOOLEAN, payOk : BOOLEAN]
NoMsg == [type |-> "none", envOk |-> FALSE, payOk |-> FALSE]
GoodMsg(type) == [type |-> type, envOk |-> TRUE, payOk |-> TRUE]

NoQuery == [c |-> 0, n |-> 0, type |-> "none", table |-> "none"]
NoFrame == [op |-> "none", table |-> "none", flags |-> 0]
NoResult == [attempts |-> 0, sleepMs |-> 0, wrote |-> FALSE, err |-> FALSE]

VARIABLES
    \* ---- controller (migrationLoop) and lifecycle flags
    ctlPc,              \* "init", "loop", "ready" (blocked on ReadyChan), "exit"
    migrationComplete,  \* p.migrationComplete
    ready,              \* p.ready
    shutdown,           \* p.shutdown (listeners closed)
    gen,                \* Starts processed; 0: p.migrationStatus is nil
    step,               \* p.migrationStatus.Tables[ks][t].Step
    \* ---- control connection handler
    hPc,                \* "read", "start", "complete", "shutdown" (blocked in
                        \* the send on the controller's channel), "ack",
                        \* "closed"
    hMsg,               \* the message read last: its type, and whether the
                        \* envelope and the payload are well-formed JSON
    echo,               \* what has been written back for that message
    hStatus,            \* payload of the Start being sent on MigrationStartChan
    startsSent,         \* Start updates read so far
    \* ---- per table state of the proxy
    queues,             \* [Gens -> [Tables -> Seq(Query)]]: the channels
    latch,              \* [Gens -> [Tables -> BOOLEAN]]: queueLocks, TRUE = locked
    queueSizes,         \* p.queueSizes
    tablePaused,        \* p.tablePaused
    \* ---- proxy.lock and what it guards
    lockHeld,           \* p.lock is held across steps (by a blocked signal)
    connectionsToSource,
    readySignals,       \* values received from ReadyForRedirect
    \* ---- executors (consumeQueue), one per Start and table
    ePc,                \* "off","select","lock","exec","dec","unlock"
    eChan,              \* generation of the channel the receive blocks on (0: none)
    eLatch,             \* generation of the mutex the Lock blocks on (0: none)
    eQ,                 \* the query received
    \* ---- client connections
    cPc,
    cUp,                \* "none", "origin", "target": the upstream dialled
    cSent,              \* frames read from the client so far
    cFrame,             \* the frame the forwarder is handling (NoFrame: none)
    cLatch,             \* generation of the mutex stopTable blocks on (0: none)
    cChan,              \* generation of the channel queueQuery blocks on (0: none)
    \* ---- prepared statements (cqlparser.PreparedQueries)
    byStreamID,         \* PreparedQueryPathByStreamID holds the PREPARE's stream id
    byPreparedID,       \* PreparedQueryPathByPreparedID holds the prepared id
    originReply,        \* per connection: a Prepared result waits at the origin
    clientPrepared,     \* per connection: the client holds the prepared id
    \* ---- target and metrics
    enqLog,             \* per table: queries in the order they were sent on a channel
    execLog,            \* per table: the queries executors passed to execute,
                        \* in order, each with whether a Write succeeded
    lastExec,           \* what the last call of execute by an executor did
    Writes,
    WriteFails,
    Reads,
    \* ---- the bytes of connection 1 (forward, client to origin)
    sent,               \* bytes the client has written to its socket
    frameEnds,          \* offsets in sent at which a frame of the client ends
    nRead,              \* bytes of sent that src.Read has returned
    data,               \* forward's buffer
    written,            \* bytes dst.Write has delivered to the origin
    fPc,                \* "read", "frame" (the inner loop), "mirror", "closed"
    dstOk,              \* no Write on the origin's socket has failed
    \* ---- history
    gated,              \* per table: "gated" once a pausing query was enqueued
                        \* while the step was not LoadingDataComplete,
                        \* "released" once an update has then given the table
                        \* that step, "no" before
    crashed

ctlVars == <<ctlPc, migrationComplete, ready, shutdown, gen, step>>
hVars == <<hPc, hMsg, echo, hStatus, startsSent>>
tblVars == <<queues, latch, queueSizes, tablePaused>>
lockVars == <<lockHeld, connectionsToSource, readySignals>>
eVars == <<ePc, eChan, eLatch, eQ>>
cVars == <<cPc, cUp, cSent, cFrame, cLatch, cChan>>
prepVars == <<byStreamID, byPreparedID, originReply, clientPrepared>>
logVars == <<enqLog, execLog, lastExec, Writes, WriteFails, Reads>>
wireVars == <<sent, frameEnds, nRead, data, written, fPc, dstOk>>
vars == <<ctlVars, hVars, tblVars, lockVars, eVars, cVars, prepVars, logVars,
          wireVars, gated, crashed>>

\* ------------------------------------------------------------------- Init
\* reset() and the zero values of CQLProxy.
InitProxy ==
    /\ migrationComplete = FALSE
    /\ ready = FALSE
    /\ shutdown = FALSE
    /\ gen = 0
    /\ step = [t \in Tables |-> WaitingToLoad]
    /\ hPc = "read"
    /\ hMsg = NoMsg
    /\ echo = NoMsg
    /\ hStatus = [t \in Tables |-> WaitingToLoad]
    /\ startsSent = 0
    /\ queues = [g \in Gens |-> [t \in Tables |-> <<>>]]
    /\ latch = [g \in Gens |-> [t \in Tables |-> FALSE]]
    /\ queueSizes = [t \in Tables |-> 0]
    /\ tablePaused = [t \in Tables |-> FALSE]
    /\ lockHeld = FALSE
    /\ readySignals = 0
    /\ ePc = [e \in Gens |-> [t \in Tables |-> "off"]]
    /\ eChan = [e \in Gens |-> [t \in Tables |-> 0]]
    /\ eLatch = [e \in Gens |-> [t \in Tables |-> 0]]
    /\ eQ = [e \in Gens |-> [t \in Tables |-> NoQuery]]
    /\ cSent = [c \in Conns |-> 0]
    /\ cFrame = [c \in Conns |-> NoFrame]
    /\ cLatch = [c \in Conns |-> 0]
    /\ cChan = [c \in Conns |-> 0]
    /\ byStreamID = FALSE
    /\ byPreparedID = FALSE
    /\ originReply = [c \in Conns |-> FALSE]
    /\ clientPrepared = [c \in Conns |-> FALSE]
    /\ enqLog = [t \in Tables |-> <<>>]
    /\ execLog = [t \in Tables |-> <<>>]
    /\ lastExec = NoResult
    /\ Writes = 0
    /\ WriteFails = 0
    /\ Reads = 0
    /\ sent = <<>>
    /\ frameEnds = {}
    /\ nRead = 0
    /\ data = <<>>
    /\ written = <<>>
    /\ fPc = "read"
    /\ dstOk = TRUE
    /\ gated = [t \in Tables |-> "no"]
    /\ crashed = FALSE

\* Start has run: the controller goroutine is about to read the flag and
\* the listeners have accepted nothing yet.
Init ==
    /\ InitProxy
    /\ ctlPc = "init"
    /\ cPc = [c \in Conns |-> "idle"]
    /\ cUp = [c \in Conns |-> "none"]
    /\ connectionsToSource = 0

\* The proxy started with the flag unset, the controller is in its loop,
\* and every client connection has been accepted, dialled to the origin and
\* counted; no update has arrived yet.
InitEstablished ==
    /\ InitProxy
    /\ ctlPc = "loop"
    /\ cPc = [c \in Conns |-> "read"]
    /\ cUp = [c \in Conns |-> "origin"]
    /\ connectionsToSource = NumConns

\* As InitEstablished, with one client connection: the others are never
\* accepted.
InitOneClient ==
    /\ InitProxy
    /\ ctlPc = "loop"
    /\ cPc = [c \in Conns |-> IF c = 1 THEN "read" ELSE "idle"]
    /\ cUp = [c \in Conns |-> IF c = 1 THEN "origin" ELSE "none"]
    /\ connectionsToSource = 1

\* The history variable gated when an update gives a table the step s.
release(g, s) ==
    IF g = "gated" /\ s = LoadingDataComplete THEN "released" ELSE g

\* ------------------------------------------------------------- controller
\* migrationLoop, lines 143-152: the flag read from the environment; with the
\* flag set the goroutine returns without entering the loop.
MigrationLoopInit(status) ==
    /\ ~crashed
    /\ UNCHANGED wireVars
    /\ ctlPc = "init"
    /\ migrationComplete' = status
    /\ ctlPc' = IF status THEN "exit" ELSE "loop"
    /\ UNCHANGED <<ready, shutdown, gen, step, hVars, tblVars, lockVars, eVars,
                   cVars, prepVars, logVars, gated>>
    /\ UNCHANGED crashed

\* loadMigrationInfo, run by the controller when it receives from
\* MigrationStartChan: fresh maps, channels and mutexes, one more executor per
\* table, the status published; then the send on ReadyChan blocks.
loadMigrationInfo ==
    /\ ~crashed
    /\ UNCHANGED wireVars
    /\ ctlPc = "loop"
    /\ hPc = "start"
    /\ gen' = gen + 1
    /\ queues' = [queues EXCEPT ![gen + 1] = [t \in Tables |-> <<>>]]
    /\ latch' = [latch EXCEPT ![gen + 1] = [t \in Tables |-> FALSE]]
    /\ queueSizes' = [t \in Tables |-> 0]
    /\ tablePaused' = [t \in Tables |-> FALSE]
    /\ ePc' = [ePc EXCEPT ![gen + 1] = [t \in Tables |-> "select"]]
    /\ step' = hStatus
    /\ ctlPc' = "ready"
    /\ hPc' = "ack"
    /\ gated' = [t \in Tables |-> release(gated[t], hStatus[t])]
    /\ UNCHANGED <<migrationComplete, ready, shutdown, hMsg, echo, hStatus,
                   startsSent,
                   lockVars, eChan, eLatch, eQ, cVars, prepVars, logVars,
                   crashed>>

\* loadMigrationInfo, lines 191-192: a reader takes the value from ReadyChan.
ReadyChanRecv ==
    /\ ~crashed
    /\ UNCHANGED wireVars
    /\ ctlPc = "ready"
    /\ ready' = TRUE
    /\ ctlPc' = "loop"
    /\ UNCHANGED <<migrationComplete, shutdown, gen, step, hVars, tblVars,
                   lockVars, eVars, cVars, prepVars, logVars, gated, crashed>>

\* startTable: the flag is cleared and the table's mutex unlocked, whoever
\* holds it; unlocking an unlocked mutex is fatal.
startTable(t) ==
    /\ tablePaused' = [tablePaused EXCEPT ![t] = FALSE]
    /\ IF latch[gen][t]
       THEN /\ latch' = [latch EXCEPT ![gen][t] = FALSE]
            /\ UNCHANGED crashed
       ELSE /\ crashed' = TRUE
            /\ UNCHANGED latch

\* migrationLoop, lines 160-162: a table arrives on TableMigratedChan.  No
\* code of the proxy sends on this channel; its sender is the migration
\* service, which sends "tables that have finished migrating" (lines 75-77):
\* tables whose step the proxy has been told is LoadingDataComplete.
TableMigratedRecv(t) ==
    /\ ~crashed
    /\ UNCHANGED wireVars
    /\ ctlPc = "loop"
    /\ gen > 0
    /\ step[t] = LoadingDataComplete
    /\ startTable(t)
    /\ UNCHANGED <<ctlVars, hVars, queues, queueSizes, lockVars, eVars, cVars,
                   prepVars, logVars, gated>>

\* migrationLoop, lines 164-166.
MigrationCompleteRecv ==
    /\ ~crashed
    /\ UNCHANGED wireVars
    /\ ctlPc = "loop"
    /\ hPc = "complete"
    /\ migrationComplete' = TRUE
    /\ hPc' = "ack"
    /\ UNCHANGED <<ctlPc, ready, shutdown, gen, step, hMsg, echo, hStatus,
                   startsSent,
                   tblVars, lockVars, eVars, cVars, prepVars, logVars, gated,
                   crashed>>

\* migrationLoop, lines 168-170, and Shutdown.
ShutdownRecv ==
    /\ ~crashed
    /\ UNCHANGED wireVars
    /\ ctlPc = "loop"
    /\ hPc = "shutdown"
    /\ shutdown' = TRUE
    /\ ctlPc' = "exit"
    /\ hPc' = "ack"
    /\ UNCHANGED <<migrationComplete, ready, gen, step, hMsg, echo, hStatus,
                   startsSent,
                   tblVars, lockVars, eVars, cVars, prepVars, logVars, gated,
                   crashed>>

\* ------------------------------------------------ control connection handler
\* handleUpdate, case Start: the send on MigrationStartChan blocks until the
\* controller receives.  The migration service moves a table's step forwards
\* only: a later Start does not take a table back from LoadingDataComplete.
HandleStart(status) ==
    /\ ~crashed
    /\ UNCHANGED wireVars
    /\ hPc = "read"
    /\ startsSent < MaxStarts
    /\ \A t \in Tables :
          (gen > 0 /\ step[t] = LoadingDataComplete)
             => status[t] = LoadingDataComplete
    /\ hPc' = "start"
    /\ hMsg' = GoodMsg("Start")
    /\ echo' = NoMsg
    /\ hStatus' = status
    /\ startsSent' = startsSent + 1
    /\ UNCHANGED <<ctlVars, tblVars, lockVars, eVars, cVars, prepVars, logVars,
                   gated, crashed>>

\* handleUpdate, case TableUpdate: the table's entry is replaced, and nothing
\* else happens.  Before the first Start p.migrationStatus is nil.  The
\* migration service moves a table's step forwards only.
HandleTableUpdate(t, s) ==
    /\ ~crashed
    /\ UNCHANGED wireVars
    /\ hPc = "read"
    /\ gen > 0 => (step[t] = LoadingDataComplete => s = LoadingDataComplete)
    /\ IF gen = 0
       THEN /\ crashed' = TRUE
            /\ UNCHANGED <<step, gated>>
       ELSE /\ step' = [step EXCEPT ![t] = s]
            /\ gated' = [gated EXCEPT ![t] = release(@, s)]
            /\ UNCHANGED crashed
    /\ hPc' = "ack"
    /\ hMsg' = GoodMsg("TableUpdate")
    /\ echo' = NoMsg
    /\ UNCHANGED <<ctlPc, migrationComplete, ready, shutdown, gen, hStatus,
                   startsSent, tblVars, lockVars, eVars, cVars, prepVars,
                   logVars>>

\* handleUpdate, case Complete.
HandleComplete ==
    /\ ~crashed
    /\ UNCHANGED wireVars
    /\ hPc = "read"
    /\ hPc' = "complete"
    /\ hMsg' = GoodMsg("Complete")
    /\ echo' = NoMsg
    /\ UNCHANGED <<ctlVars, hStatus, startsSent, tblVars, lockVars, eVars,
                   cVars, prepVars, logVars, gated, crashed>>

\* handleUpdate, case Shutdown.
HandleShutdown ==
    /\ ~crashed
    /\ UNCHANGED wireVars
    /\ hPc = "read"
    /\ hPc' = "shutdown"
    /\ hMsg' = GoodMsg("Shutdown")
    /\ echo' = NoMsg
    /\ UNCHANGED <<ctlVars, hStatus, startsSent, tblVars, lockVars, eVars,
                   cVars, prepVars, logVars, gated, crashed>>

\* handleMigrationCommunication, lines 264-268, and handleUpdate: the message
\* goes on to its case when the envelope decodes and, for the types whose
\* case decodes the payload (lines 290-293, 298-301), the payload does.
decodesIgnoringPayload(type, envOk, payOk) ==
    envOk

decodes(type, envOk, payOk) ==
    envOk /\ (type \in {"Start", "TableUpdate"} => payOk)

\* Where handleUpdate takes the handler for a message of the type: into the
\* send on the controller's channel, or back (return nil) to the echo.
dispatchState(type) ==
    CASE type = "Start" -> "start"
      [] type = "Complete" -> "complete"
      [] type = "Shutdown" -> "shutdown"
      [] OTHER -> "ack"

\* handleMigrationCommunication and handleUpdate for a message that is not a
\* well-formed update of one of the four types: a decode error ends the
\* handler, which closes the connection (line 250); a message that decodes
\* goes the way of its type, its payload unread.
HandleMalformed(type, envOk, payOk) ==
    /\ ~crashed
    /\ UNCHANGED wireVars
    /\ hPc = "read"
    /\ ~(envOk /\ payOk) \/ type = "Other"
    /\ hMsg' = [type |-> type, envOk |-> envOk, payOk |-> payOk]
    /\ echo' = NoMsg
    /\ hPc' = IF decodes(type, envOk, payOk) THEN dispatchState(type)
              ELSE "closed"
    /\ UNCHANGED <<ctlVars, hStatus, startsSent, tblVars, lockVars, eVars,
                   cVars, prepVars, logVars, gated, crashed>>

\* handleMigrationCommunication, lines 277-281: the bytes read are written
\* back; whether or not the Write succeeds the handler reads on.
HandleAck(ok) ==
    /\ ~crashed
    /\ UNCHANGED wireVars
    /\ hPc = "ack"
    /\ echo' = IF ok THEN hMsg ELSE echo
    /\ hPc' = "read"
    /\ UNCHANGED <<ctlVars, hMsg, hStatus, startsSent, tblVars, lockVars,
                   eVars, cVars, prepVars, logVars, gated, crashed>>

\* ---------------------------------------------------------------- execute
\* The outcomes of the write attempts on the target connection: outcomes[i]
\* is TRUE when the i-th Write returns no error.
WriteOutcomes == [1..maxAttempts -> BOOLEAN]

\* execute, lines 612-621: the retry loop from attempt i on.  r.err is the
\* function's own err (line 611), which the loop never assigns: line 614
\* declares another err in the loop's scope.
RECURSIVE executeLoop(_, _, _)
executeLoop(outcomes, i, r) ==
    IF i > maxAttempts
    THEN r
    ELSE IF outcomes[i]
         THEN [r EXCEPT !.attempts = @ + 1, !.wrote = TRUE]
         ELSE executeLoop(outcomes, i + 1,
                          [r EXCEPT !.attempts = @ + 1,
                                    !.sleepMs = @ + retryDelayMs])

\* execute: attempts made, milliseconds slept, whether a Write succeeded, and
\* the error returned.
execute(outcomes) == executeLoop(outcomes, 1, NoResult)

\* -------------------------------------------------------------- executors
\* consumeQueue, line 581: the receive on p.queues[ks][t], the channel being
\* the one the map holds when the select is entered.
ConsumeRecv(e, t) ==
    /\ ~crashed
    /\ UNCHANGED wireVars
    /\ ePc[e][t] = "select"
    /\ LET g == IF eChan[e][t] = 0 THEN gen ELSE eChan[e][t] IN
       IF queues[g][t] # <<>>
       THEN /\ eQ' = [eQ EXCEPT ![e][t] = Head(queues[g][t])]
            /\ queues' = [queues EXCEPT ![g][t] = Tail(@)]
            /\ eChan' = [eChan EXCEPT ![e][t] = 0]
            /\ ePc' = [ePc EXCEPT ![e][t] = "lock"]
       ELSE /\ eChan[e][t] = 0
            /\ eChan' = [eChan EXCEPT ![e][t] = g]
            /\ UNCHANGED <<eQ, queues, ePc>>
    /\ UNCHANGED <<ctlVars, hVars, latch, queueSizes, tablePaused, lockVars,
                   eLatch, cVars, prepVars, logVars, gated, crashed>>

\* consumeQueue, line 582: Lock on p.queueLocks[ks][t], the mutex being the
\* one the map holds when Lock is called.
ConsumeLock(e, t) ==
    /\ ~crashed
    /\ UNCHANGED wireVars
    /\ ePc[e][t] = "lock"
    /\ LET g == IF eLatch[e][t] = 0 THEN gen ELSE eLatch[e][t] IN
       IF ~latch[g][t]
       THEN /\ latch' = [latch EXCEPT ![g][t] = TRUE]
            /\ eLatch' = [eLatch EXCEPT ![e][t] = 0]
            /\ ePc' = [ePc EXCEPT ![e][t] = "exec"]
       ELSE /\ eLatch[e][t] = 0
            /\ eLatch' = [eLatch EXCEPT ![e][t] = g]
            /\ UNCHANGED <<latch, ePc>>
    /\ UNCHANGED <<ctlVars, hVars, queues, queueSizes, tablePaused, lockVars,
                   eChan, eQ, cVars, prepVars, logVars, gated, crashed>>

\* consumeQueue, lines 585-595: execute and the metric that follows.
ConsumeExecute(e, t, outcomes) ==
    /\ ~crashed
    /\ UNCHANGED wireVars
    /\ ePc[e][t] = "exec"
    /\ LET r == execute(outcomes) IN
       /\ execLog' = [execLog EXCEPT
                         ![t] = Append(@, [q |-> eQ[e][t], wrote |-> r.wrote])]
       /\ lastExec' = r
       /\ IF r.err
          THEN WriteFails' = WriteFails + 1 /\ UNCHANGED Writes
          ELSE Writes' = Writes + 1 /\ UNCHANGED WriteFails
    /\ ePc' = [ePc EXCEPT ![e][t] = "dec"]
    /\ UNCHANGED <<ctlVars, hVars, tblVars, lockVars, eChan, eLatch, eQ, cVars,
                   prepVars, enqLog, Reads, gated, crashed>>

\* consumeQueue, lines 597-599.
ConsumeDec(e, t) ==
    /\ ~crashed
    /\ UNCHANGED wireVars
    /\ ePc[e][t] = "dec"
    /\ ~lockHeld
    /\ queueSizes' = [queueSizes EXCEPT ![t] = @ - 1]
    /\ ePc' = [ePc EXCEPT ![e][t] = "unlock"]
    /\ UNCHANGED <<ctlVars, hVars, queues, latch, tablePaused, lockVars, eChan,
                   eLatch, eQ, cVars, prepVars, logVars, gated, crashed>>

\* consumeQueue, line 601: Unlock on the mutex the map holds now.
ConsumeUnlock(e, t) ==
    /\ ~crashed
    /\ UNCHANGED wireVars
    /\ ePc[e][t] = "unlock"
    /\ IF latch[gen][t]
       THEN /\ latch' = [latch EXCEPT ![gen][t] = FALSE]
            /\ UNCHANGED crashed
       ELSE /\ crashed' = TRUE
            /\ UNCHANGED latch
    /\ ePc' = [ePc EXCEPT ![e][t] = "select"]
    /\ eQ' = [eQ EXCEPT ![e][t] = NoQuery]
    /\ UNCHANGED <<ctlVars, hVars, queues, queueSizes, tablePaused, lockVars,
                   eChan, eLatch, cVars, prepVars, logVars, gated>>

\* ------------------------------------------------------ client connections
\* A request frame is the action of the path the classifier gives it
\* (/query/<action>/<table>, /prepare/insert/<table>, /execute/...) and its
\* table: op is "insert", "update", "delete", "truncate", "select", "prepare"
\* or "execute", an EXECUTE of the prepared id the client was given.  flags
\* is byte 1 of the frame's header.

\* The QueryType the handlers give a query (lines 493-496, 514-517, 531-534,
\* 553-556, 420-423).
queryType(op) ==
    CASE op = "insert" -> INSERT
      [] op = "execute" -> INSERT
      [] op = "update" -> UPDATE
      [] op = "delete" -> DELETE
      [] op = "truncate" -> TRUNCATE
      [] op = "prepare" -> PREPARE
      [] OTHER -> MISC

\* The Query a handler builds for the frame the forwarder is handling.
queryOf(c) ==
    [c |-> c, n |-> cSent[c], type |-> queryType(cFrame[c].op),
     table |-> cFrame[c].table]

RECURSIVE SumTo(_, _)
SumTo(f, n) == IF n = 0 THEN 0 ELSE f[n] + SumTo(f, n - 1)
\* Frames read from the clients so far, over all connections.
FramesSent == SumTo(cSent, NumConns)

\* listen, lines 211-220: the listener accepts a connection and starts its
\* handler; Shutdown closes the listeners.  Connections are taken in order.
Accept(c) ==
    /\ ~crashed
    /\ UNCHANGED wireVars
    /\ ~shutdown
    /\ cPc[c] = "idle"
    /\ \A d \in Conns : d < c => cPc[d] # "idle"
    /\ cPc' = [cPc EXCEPT ![c] = "handle"]
    /\ UNCHANGED <<ctlVars, hVars, tblVars, lockVars, eVars, cUp, cSent,
                   cFrame, cLatch, cChan, prepVars, logVars, gated, crashed>>

\* A handler that ignores the flag (mutation of upstreamFor).
upstreamForIgnoringFlag(complete) == "origin"

\* handleDatabaseConnection, lines 228-231: the upstream is chosen by the flag.
upstreamFor(complete) == IF complete THEN "target" ELSE "origin"

ChooseUpstream(c) ==
    /\ ~crashed
    /\ UNCHANGED wireVars
    /\ cPc[c] = "handle"
    /\ cUp' = [cUp EXCEPT ![c] = upstreamFor(migrationComplete)]
    /\ cPc' = [cPc EXCEPT ![c] = "dial"]
    /\ UNCHANGED <<ctlVars, hVars, tblVars, lockVars, eVars, cSent, cFrame,
                   cLatch, cChan, prepVars, logVars, gated, crashed>>

\* handleDatabaseConnection, line 239, and forward, line 318: the connection
\* is counted, and later uncounted, when its upstream is the origin.
countsAsSource(up) == up = "origin"

\* handleDatabaseConnection, lines 233-241: the dial; a failed dial ends the
\* handler.
Dial(c, ok) ==
    /\ ~crashed
    /\ UNCHANGED wireVars
    /\ cPc[c] = "dial"
    /\ cPc' = [cPc EXCEPT ![c] = IF ~ok THEN "failed"
                                 ELSE IF countsAsSource(cUp[c]) THEN "incr"
                                 ELSE "read"]
    /\ UNCHANGED <<ctlVars, hVars, tblVars, lockVars, eVars, cUp, cSent,
                   cFrame, cLatch, cChan, prepVars, logVars, gated, crashed>>

\* incrementSources, then the two forwarders start (lines 244-245).
incrementSources(c) ==
    /\ ~crashed
    /\ UNCHANGED wireVars
    /\ cPc[c] = "incr"
    /\ ~lockHeld
    /\ connectionsToSource' = connectionsToSource + 1
    /\ cPc' = [cPc EXCEPT ![c] = "read"]
    /\ UNCHANGED <<ctlVars, hVars, tblVars, lockHeld, readySignals, eVars, cUp,
                   cSent, cFrame, cLatch, cChan, prepVars, logVars, gated,
                   crashed>>

\* forward, lines 329-353: a whole frame has been read from the client.  A
\* client sends an EXECUTE only of an id it was given.
readFrame(c, f) ==
    /\ ~crashed
    /\ UNCHANGED wireVars
    /\ cPc[c] = "read"
    /\ FramesSent < MaxFrames
    /\ cFrame' = [cFrame EXCEPT ![c] = f]
    /\ cSent' = [cSent EXCEPT ![c] = @ + 1]
    /\ cPc' = [cPc EXCEPT ![c] = "write"]
    /\ UNCHANGED <<ctlVars, hVars, tblVars, lockVars, eVars, cUp, cLatch,
                   cChan, prepVars, logVars, gated, crashed>>

ForwardRead(c, f) ==
    /\ f.op = "execute" => clientPrepared[c]
    /\ readFrame(c, f)

\* The same for an EXECUTE of a prepared id that no reply seen by this proxy
\* has carried.
ForwardReadUnprepared(c, f) ==
    /\ f.op = "execute"
    /\ ~byPreparedID
    /\ readFrame(c, f)

\* forward, lines 362-368: only a forwarder whose destination is the origin
\* passes its frames to mirrorData.
mirrors(dst) == dst = "origin"

\* The forwarder is done with its frame (lines 370-374) and reads again.
nextFrame(c) ==
    /\ cFrame' = [cFrame EXCEPT ![c] = NoFrame]
    /\ cPc' = [cPc EXCEPT ![c] = "read"]

\* forward, lines 353-358: the frame is written to the destination.  The
\* origin answers a PREPARE with a Prepared result.
ForwardWrite(c) ==
    /\ ~crashed
    /\ UNCHANGED wireVars
    /\ cPc[c] = "write"
    /\ IF mirrors(cUp[c])
       THEN /\ cPc' = [cPc EXCEPT ![c] = "mirror"]
            /\ originReply' = [originReply EXCEPT
                                  ![c] = @ \/ cFrame[c].op = "prepare"]
            /\ UNCHANGED cFrame
       ELSE /\ nextFrame(c)
            /\ UNCHANGED originReply
    /\ UNCHANGED <<ctlVars, hVars, tblVars, lockVars, eVars, cUp, cSent,
                   cLatch, cChan, byStreamID, byPreparedID, clientPrepared,
                   logVars, gated, crashed>>

\* cqlparser.CassandraParseReply on a Prepared result: the path held under
\* the reply's stream id is installed under the prepared id and the stream
\* id's entry removed.
parseReply(reg) ==
    [byStream |-> FALSE, byPrepared |-> reg.byPrepared \/ reg.byStream]

\* cqlparser.CassandraParseRequest on an EXECUTE: the action of the path held
\* under the prepared id, or UnknownPreparedQueryPath.
classify(f, reg) ==
    IF f.op = "execute"
    THEN IF reg.byPrepared THEN "insert" ELSE "unknown"
    ELSE f.op

\* forward run on the origin's side of a connection (line 245): the origin's
\* Prepared result is written to the client.  This forwarder's destination
\* is the client, and the reply is passed to mirrorData (whose reply branch,
\* lines 386-389, calls CassandraParseReply) only if mirrors(client).
ForwardReply(c) ==
    /\ ~crashed
    /\ UNCHANGED wireVars
    /\ originReply[c]
    /\ cPc[c] \notin {"idle", "handle", "dial", "failed", "incr", "done"}
    /\ originReply' = [originReply EXCEPT ![c] = FALSE]
    /\ clientPrepared' = [clientPrepared EXCEPT ![c] = TRUE]
    /\ LET reg == [byStream |-> byStreamID, byPrepared |-> byPreparedID]
           new == IF mirrors("client") THEN parseReply(reg) ELSE reg IN
       /\ byStreamID' = new.byStream
       /\ byPreparedID' = new.byPrepared
    /\ UNCHANGED <<ctlVars, hVars, tblVars, lockVars, eVars, cVars, logVars,
                   gated, crashed>>

\* The condition under which handleUpdateQuery, handleDeleteQuery and
\* handleTruncateQuery call stopTable (lines 489, 510, 549).
mustStop(paused, st) == ~paused /\ st # LoadingDataComplete

\* Where mirrorData's handler for the action (lines 431-444) sends the
\* forwarder once the table is found in the status: to stopTable, or to
\* queueQuery.
handlerNext(action, t) ==
    IF queryType(action) \in PauseTypes /\ mustStop(tablePaused[t], step[t])
    THEN "stop"
    ELSE "enqueue"

\* mirrorData, line 380: the compression flag of the frame.
compressionFlag(f) == f.flags % 2

\* A table of a keyspace the migration status does not name.
AbsentTable == "ks2.t1"

\* handle*Query, lines 484, 504, 526, 543: the table is in the status.
inStatus(t) == t \in Tables

\* mirrorData, lines 379-457, for the frame the forwarder has written.
mirrorData(c) ==
    /\ ~crashed
    /\ UNCHANGED wireVars
    /\ cPc[c] = "mirror"
    /\ LET f == cFrame[c]
           action == classify(f, [byStream |-> byStreamID,
                                  byPrepared |-> byPreparedID]) IN
       CASE compressionFlag(f) = 1 ->
              \* lines 381-383: an error is returned, which forward logs
              /\ nextFrame(c)
              /\ UNCHANGED <<byStreamID, Reads, crashed>>
         [] action = "prepare" ->
              \* the classifier notes the stream id; execute(q) on the target
              /\ byStreamID' = TRUE
              /\ nextFrame(c)
              /\ UNCHANGED <<Reads, crashed>>
         [] action = "unknown" ->
              \* UnknownPreparedQueryPath: the query is ignored
              /\ nextFrame(c)
              /\ UNCHANGED <<byStreamID, Reads, crashed>>
         [] action = "select" ->
              /\ Reads' = Reads + 1
              /\ nextFrame(c)
              /\ UNCHANGED <<byStreamID, crashed>>
         [] OTHER ->
              \* handle*Query: p.migrationStatus.Tables is read first
              IF gen = 0
              THEN /\ crashed' = TRUE
                   /\ UNCHANGED <<cFrame, cPc, byStreamID, Reads>>
              ELSE IF ~inStatus(f.table)
              THEN \* "table does not exist", which forward logs
                   /\ nextFrame(c)
                   /\ UNCHANGED <<byStreamID, Reads, crashed>>
              ELSE /\ cPc' = [cPc EXCEPT ![c] = handlerNext(action, f.table)]
                   /\ UNCHANGED <<cFrame, byStreamID, Reads, crashed>>
    /\ UNCHANGED <<ctlVars, hVars, tblVars, lockVars, eVars, cUp, cSent,
                   cLatch, cChan, byPreparedID, originReply, clientPrepared,
                   enqLog, execLog, lastExec, Writes, WriteFails, gated>>

\* stopTable, line 637.
stopTableSet(c) ==
    /\ ~crashed
    /\ UNCHANGED wireVars
    /\ cPc[c] = "stop"
    /\ tablePaused' = [tablePaused EXCEPT ![cFrame[c].table] = TRUE]
    /\ cPc' = [cPc EXCEPT ![c] = "stopLock"]
    /\ UNCHANGED <<ctlVars, hVars, queues, latch, queueSizes, lockVars, eVars,
                   cUp, cSent, cFrame, cLatch, cChan, prepVars, logVars, gated,
                   crashed>>

\* stopTable, line 638: Lock on the mutex the map holds when Lock is called.
stopTableLock(c) ==
    /\ ~crashed
    /\ UNCHANGED wireVars
    /\ cPc[c] = "stopLock"
    /\ LET t == cFrame[c].table
           g == IF cLatch[c] = 0 THEN gen ELSE cLatch[c] IN
       IF ~latch[g][t]
       THEN /\ latch' = [latch EXCEPT ![g][t] = TRUE]
            /\ cLatch' = [cLatch EXCEPT ![c] = 0]
            /\ cPc' = [cPc EXCEPT ![c] = "enqueue"]
       ELSE /\ cLatch[c] = 0
            /\ cLatch' = [cLatch EXCEPT ![c] = g]
            /\ UNCHANGED <<latch, cPc>>
    /\ UNCHANGED <<ctlVars, hVars, queues, queueSizes, tablePaused, lockVars,
                   eVars, cUp, cSent, cFrame, cChan, prepVars, logVars, gated,
                   crashed>>

\* queueQuery, line 569: the send on the channel the map holds when the send
\* is made; it blocks while the channel is full.
queueSend(c) ==
    /\ ~crashed
    /\ UNCHANGED wireVars
    /\ cPc[c] = "enqueue"
    /\ LET q == queryOf(c)
           t == q.table
           g == IF cChan[c] = 0 THEN gen ELSE cChan[c] IN
       IF Len(queues[g][t]) < QueueCap
       THEN /\ queues' = [queues EXCEPT ![g][t] = Append(@, q)]
            /\ enqLog' = [enqLog EXCEPT ![t] = Append(@, q)]
            /\ gated' = [gated EXCEPT
                            ![t] = IF q.type \in PauseTypes
                                      /\ step[t] # LoadingDataComplete
                                   THEN "gated" ELSE @]
            /\ cChan' = [cChan EXCEPT ![c] = 0]
            /\ cPc' = [cPc EXCEPT ![c] = "account"]
       ELSE /\ cChan[c] = 0
            /\ cChan' = [cChan EXCEPT ![c] = g]
            /\ UNCHANGED <<queues, enqLog, gated, cPc>>
    /\ UNCHANGED <<ctlVars, hVars, latch, queueSizes, tablePaused, lockVars,
                   eVars, cUp, cSent, cFrame, cLatch, prepVars, execLog,
                   lastExec, Writes, WriteFails, Reads, crashed>>

\* queueQuery, lines 571-573; then the forwarder reads its next frame.
queueAccount(c) ==
    /\ ~crashed
    /\ UNCHANGED wireVars
    /\ cPc[c] = "account"
    /\ ~lockHeld
    /\ queueSizes' = [queueSizes EXCEPT ![cFrame[c].table] = @ + 1]
    /\ nextFrame(c)
    /\ UNCHANGED <<ctlVars, hVars, queues, latch, tablePaused, lockVars, eVars,
                   cUp, cSent, cLatch, cChan, prepVars, logVars, gated,
                   crashed>>

\* forward, lines 329-337 and 315-320: the read fails because a socket of the
\* connection was closed; the forwarder returns.
ForwardExit(c) ==
    /\ ~crashed
    /\ UNCHANGED wireVars
    /\ cPc[c] = "read"
    /\ cPc' = [cPc EXCEPT ![c] = IF countsAsSource(cUp[c]) THEN "decr"
                                 ELSE "done"]
    /\ UNCHANGED <<ctlVars, hVars, tblVars, lockVars, eVars, cUp, cSent,
                   cFrame, cLatch, cChan, prepVars, logVars, gated, crashed>>

\* decrementSources, line 660.
mustSignal(complete, n) == complete /\ n = 0

\* decrementSources, lines 655-662: with the condition true the send on
\* ReadyForRedirect blocks while p.lock is held.
decrementSources(c) ==
    /\ ~crashed
    /\ UNCHANGED wireVars
    /\ cPc[c] = "decr"
    /\ ~lockHeld
    /\ connectionsToSource' = connectionsToSource - 1
    /\ IF mustSignal(migrationComplete, connectionsToSource - 1)
       THEN /\ lockHeld' = TRUE
            /\ cPc' = [cPc EXCEPT ![c] = "signal"]
       ELSE /\ cPc' = [cPc EXCEPT ![c] = "done"]
            /\ UNCHANGED lockHeld
    /\ UNCHANGED <<ctlVars, hVars, tblVars, readySignals, eVars, cUp, cSent,
                   cFrame, cLatch, cChan, prepVars, logVars, gated, crashed>>

\* decrementSources, lines 662-664: a reader takes the value from
\* ReadyForRedirect and the deferred Unlock runs.
ReadyForRedirectRecv(c) ==
    /\ ~crashed
    /\ UNCHANGED wireVars
    /\ cPc[c] = "signal"
    /\ readySignals' = readySignals + 1
    /\ lockHeld' = FALSE
    /\ cPc' = [cPc EXCEPT ![c] = "done"]
    /\ UNCHANGED <<ctlVars, hVars, tblVars, connectionsToSource, eVars, cUp,
                   cSent, cFrame, cLatch, cChan, prepVars, logVars, gated,
                   crashed>>

\* ------------------------------------------- forward, byte by byte
\* binary.BigEndian.PutUint32 and Uint32 on four bytes.
PutUint32(n) ==
    <<(n \div 16777216) % 256, (n \div 65536) % 256, (n \div 256) % 256,
      n % 256>>
\* The length read least significant byte first (mutation of Uint32).
Uint32LittleEndian(b) == b[4] * 16777216 + b[3] * 65536 + b[2] * 256 + b[1]
Uint32(b) == b[1] * 16777216 + b[2] * 65536 + b[3] * 256 + b[4]

\* The k-th request frame of a client, with a body of len bytes: version 4,
\* no flags, stream id k, opcode QUERY, the body's length, and a body whose
\* bytes tell the frame and the offset.
clientFrame(k, len) ==
    <<4, 0, 0, k, 7>> \o PutUint32(len) \o [j \in 1..len |-> 16 * k + j]

Min(a, b) == IF a < b THEN a ELSE b

\* The client writes one more frame to the connection.
ClientSend(len) ==
    /\ Cardinality(frameEnds) < MaxWireFrames
    /\ sent' = sent \o clientFrame(Cardinality(frameEnds) + 1, len)
    /\ frameEnds' = frameEnds \cup {Len(sent) + cassHdrLen + len}
    /\ UNCHANGED <<nRead, data, written, fPc, dstOk>>
    /\ UNCHANGED <<ctlVars, hVars, tblVars, lockVars, eVars, cVars, prepVars,
                   logVars, gated, crashed>>

\* The end of the last whole frame of the client within its first n bytes.
lastFrameEnd(n) ==
    IF \E e \in frameEnds : e <= n
    THEN CHOOSE e \in frameEnds : e <= n /\ \A x \in frameEnds : x <= n => x <= e
    ELSE 0

\* Whether the client has sent bytes past its last whole frame: the header
\* of a frame whose body has not followed.
headerPending ==
    Len(sent) > lastFrameEnd(Len(sent))

\* The client writes the header of a frame that announces a body of more
\* than cassMaxLen bytes, and no body.
ClientSendOversize ==
    /\ Cardinality(frameEnds) < MaxWireFrames
    /\ ~headerPending
    /\ sent' = sent \o <<4, 0, 0, Cardinality(frameEnds) + 1, 7>>
                    \o PutUint32(cassMaxLen + 1)
    /\ UNCHANGED <<frameEnds, nRead, data, written, fPc, dstOk>>
    /\ UNCHANGED <<ctlVars, hVars, tblVars, lockVars, eVars, cVars, prepVars,
                   logVars, gated, crashed>>

\* forward, lines 329-338: src.Read returns n of the bytes that have
\* arrived, and they are appended to data.
SrcRead(n) ==
    /\ fPc = "read"
    /\ n \in 1..Min(bufLen, Len(sent) - nRead)
    /\ data' = data \o SubSeq(sent, nRead + 1, nRead + n)
    /\ nRead' = nRead + n
    /\ fPc' = "frame"
    /\ UNCHANGED <<sent, frameEnds, written, dstOk>>
    /\ UNCHANGED <<ctlVars, hVars, tblVars, lockVars, eVars, cVars, prepVars,
                   logVars, gated, crashed>>

\* forward, lines 329-337: src.Read returns an error and forward returns.
SrcReadError ==
    /\ fPc = "read"
    /\ fPc' = "closed"
    /\ UNCHANGED <<sent, frameEnds, nRead, data, written, dstOk>>
    /\ UNCHANGED <<ctlVars, hVars, tblVars, lockVars, eVars, cVars, prepVars,
                   logVars, gated, crashed>>

\* The length taken for the body's alone (mutation of fullLength).
fullLengthOfBody(d) == Uint32(SubSeq(d, 6, 9))

\* forward, line 347-348: the length of the frame at the head of buffer d.
fullLength(d) == cassHdrLen + Uint32(SubSeq(d, 6, 9))

\* forward, lines 343-351: the inner loop goes on with a frame.
hasFrame(d) ==
    /\ Len(d) >= cassHdrLen
    /\ ~(Len(d) < fullLength(d) \/ Len(d) > cassMaxLen)

\* forward, lines 341-358: one round of the inner loop.  Without a whole
\* frame in data the loop is left for the next Read.  Otherwise the frame is
\* written to the origin; a failed Write has delivered k of its bytes, the
\* socket accepts nothing from then on, and the loop goes round (continue)
\* with data as it was.
FrameLoop(ok, k) ==
    /\ fPc = "frame"
    /\ IF ~hasFrame(data)
       THEN /\ fPc' = "read"
            /\ UNCHANGED <<written, dstOk>>
       ELSE LET query == SubSeq(data, 1, fullLength(data)) IN
            IF dstOk /\ ok
            THEN /\ written' = written \o query
                 /\ fPc' = "mirror"
                 /\ UNCHANGED dstOk
            ELSE /\ k \in 0..(Len(query) - 1)
                 /\ written' = IF dstOk THEN written \o SubSeq(query, 1, k)
                               ELSE written
                 /\ dstOk' = FALSE
                 /\ UNCHANGED fPc
    /\ UNCHANGED <<sent, frameEnds, nRead, data>>
    /\ UNCHANGED <<ctlVars, hVars, tblVars, lockVars, eVars, cVars, prepVars,
                   logVars, gated, crashed>>

\* forward, lines 362-373: mirrorData has returned, whatever it did with the
\* frame; the frame is dropped from data.
MirrorReturn ==
    /\ fPc = "mirror"
    /\ data' = SubSeq(data, fullLength(data) + 1, Len(data))
    /\ fPc' = "frame"
    /\ UNCHANGED <<sent, frameEnds, nRead, written, dstOk>>
    /\ UNCHANGED <<ctlVars, hVars, tblVars, lockVars, eVars, cVars, prepVars,
                   logVars, gated, crashed>>

\* ---------------------------------------------------------- specifications
\* The bytes of one origin-bound connection under every split of the
\* client's frames across reads.
NextBytes ==
    \/ \E len \in 0..MaxBody : ClientSend(len)
    \/ \E n \in 1..(MaxWireFrames * (cassHdrLen + MaxBody)) : SrcRead(n)
    \/ SrcReadError
    \/ \E ok \in BOOLEAN, k \in 0..(cassHdrLen + MaxBody) : FrameLoop(ok, k)
    \/ MirrorReturn

SpecBytes == InitOneClient /\ [][NextBytes]_vars

\* The same connection with a client that may also announce a frame larger
\* than the protocol allows.
NextOversize ==
    \/ \E len \in 0..MaxBody : ~headerPending /\ ClientSend(len)
    \/ ClientSendOversize
    \/ \E n \in 1..(MaxWireFrames * (cassHdrLen + MaxBody)) : SrcRead(n)
    \/ SrcReadError
    \/ \E ok \in BOOLEAN, k \in 0..(cassHdrLen + MaxBody) : FrameLoop(ok, k)
    \/ MirrorReturn

SpecOversize == InitOneClient /\ [][NextOversize]_vars

\* The lifecycle: the flag, Complete and Shutdown, and client connections
\* accepted, routed, counted, forwarding SELECTs and closed.
SelectFrames == [op : {"select"}, table : Tables, flags : {0}]

NextLifecycle ==
    \/ \E status \in BOOLEAN : MigrationLoopInit(status)
    \/ HandleComplete
    \/ MigrationCompleteRecv
    \/ HandleShutdown
    \/ ShutdownRecv
    \/ \E ok \in BOOLEAN : HandleAck(ok)
    \/ \E c \in Conns : Accept(c)
    \/ \E c \in Conns : ChooseUpstream(c)
    \/ \E c \in Conns, ok \in BOOLEAN : Dial(c, ok)
    \/ \E c \in Conns : incrementSources(c)
    \/ \E c \in Conns, f \in SelectFrames : ForwardRead(c, f)
    \/ \E c \in Conns : ForwardWrite(c)
    \/ \E c \in Conns : mirrorData(c)
    \/ \E c \in Conns : ForwardExit(c)
    \/ \E c \in Conns : decrementSources(c)
    \/ \E c \in Conns : ReadyForRedirectRecv(c)

SpecLifecycle == Init /\ [][NextLifecycle]_vars

\* The payloads of a Start update.
Statuses == [Tables -> Steps]

\* The lifecycle with Start updates as well, and the controller goroutine
\* and the reader of ReadyChan scheduled fairly.  Nothing is assumed of the
\* migration service or of the clients.
NextControl ==
    \/ NextLifecycle
    \/ \E status \in Statuses : HandleStart(status)
    \/ \E msg \in Msgs : HandleMalformed(msg.type, msg.envOk, msg.payOk)
    \/ loadMigrationInfo
    \/ ReadyChanRecv

ControllerLoop ==
    \/ \E status \in BOOLEAN : MigrationLoopInit(status)
    \/ loadMigrationInfo
    \/ ReadyChanRecv
    \/ MigrationCompleteRecv
    \/ ShutdownRecv

SpecControl == Init /\ [][NextControl]_vars /\ WF_vars(ControllerLoop)

\* The mirror path of one client connection: INSERTs and UPDATEs mirrored
\* through the table's queue and executor, the table paused and resumed.
WriteFrames == [op : {"insert", "update"}, table : Tables, flags : {0}]
\* Every write to the target succeeds, or every write fails.
SteadyOutcomes == {[i \in 1..maxAttempts |-> b] : b \in BOOLEAN}

ControlSteps ==
    \/ \E ok \in BOOLEAN : HandleAck(ok)
    \/ loadMigrationInfo
    \/ ReadyChanRecv
    \/ \E t \in Tables, s \in Steps : HandleTableUpdate(t, s)
    \/ \E t \in Tables : TableMigratedRecv(t)

ExecutorSteps ==
    \/ \E e \in Gens, t \in Tables : ConsumeRecv(e, t)
    \/ \E e \in Gens, t \in Tables : ConsumeLock(e, t)
    \/ \E e \in Gens, t \in Tables : ConsumeDec(e, t)
    \/ \E e \in Gens, t \in Tables : ConsumeUnlock(e, t)

MirrorSteps ==
    \/ \E c \in Conns : ForwardWrite(c)
    \/ \E c \in Conns : mirrorData(c)
    \/ \E c \in Conns : stopTableSet(c)
    \/ \E c \in Conns : stopTableLock(c)
    \/ \E c \in Conns : queueSend(c)
    \/ \E c \in Conns : queueAccount(c)

\* Repeated Start: the migration service may send Start again.
NextRestart ==
    \/ \E status \in Statuses : HandleStart(status)
    \/ ControlSteps
    \/ ExecutorSteps
    \/ \E e \in Gens, t \in Tables, o \in SteadyOutcomes : ConsumeExecute(e, t, o)
    \/ \E c \in Conns, f \in WriteFrames :
          FramesSent < MaxMirrored /\ ForwardRead(c, f)
    \/ MirrorSteps

SpecRestart == InitOneClient /\ [][NextRestart]_vars

\* Frames whose mirror is dropped: compressed ones, and requests on a table
\* the status does not name.
DroppedFrames ==
    [op : {"insert", "select"}, table : Tables, flags : {1}]
        \cup [op : {"insert", "update", "select"}, table : {AbsentTable},
              flags : {0}]

\* One Start, on either side of which a client sends writes, frames whose
\* mirror is dropped, and EXECUTEs of ids the proxy never saw.
NextDropped ==
    \/ \E status \in Statuses : startsSent = 0 /\ HandleStart(status)
    \/ ControlSteps
    \/ ExecutorSteps
    \/ \E e \in Gens, t \in Tables, o \in SteadyOutcomes : ConsumeExecute(e, t, o)
    \/ \E c \in Conns, f \in WriteFrames \cup DroppedFrames :
          FramesSent < MaxMirrored /\ ForwardRead(c, f)
    \/ \E c \in Conns, t \in Tables :
          /\ FramesSent < MaxMirrored
          /\ ForwardReadUnprepared(c, [op |-> "execute", table |-> t,
                                       flags |-> 0])
    \/ MirrorSteps

SpecDropped == InitOneClient /\ [][NextDropped]_vars

\* One Start and every client connection mirroring: forwarders race each
\* other and the table's executor.
PauseFrames ==
    [op : {"insert", "update", "delete", "truncate"}, table : Tables,
     flags : {0}]

NextPause ==
    \/ \E status \in Statuses : startsSent = 0 /\ HandleStart(status)
    \/ ControlSteps
    \/ ExecutorSteps
    \/ \E e \in Gens, t \in Tables, o \in SteadyOutcomes : ConsumeExecute(e, t, o)
    \/ \E c \in Conns, f \in PauseFrames :
          FramesSent < MaxMirrored /\ ForwardRead(c, f)
    \/ MirrorSteps

SpecPause == InitEstablished /\ [][NextPause]_vars

\* One Start: the queue of a table under every outcome of the writes to the
\* target.
NextQueue ==
    \/ \E status \in Statuses : startsSent = 0 /\ HandleStart(status)
    \/ ControlSteps
    \/ ExecutorSteps
    \/ \E e \in Gens, t \in Tables, o \in WriteOutcomes : ConsumeExecute(e, t, o)
    \/ \E c \in Conns, f \in WriteFrames : ForwardRead(c, f)
    \/ MirrorSteps

SpecQueue == InitOneClient /\ [][NextQueue]_vars

\* Prepared statements on one client connection: PREPARE, the origin's
\* Prepared result on its way back, EXECUTE and plain INSERTs.
PreparedFrames ==
    [op : {"prepare", "execute", "insert"}, table : Tables, flags : {0}]

NextPrepared ==
    \/ \E status \in Statuses : startsSent = 0 /\ HandleStart(status)
    \/ \E ok \in BOOLEAN : HandleAck(ok)
    \/ loadMigrationInfo
    \/ ReadyChanRecv
    \/ ExecutorSteps
    \/ \E e \in Gens, t \in Tables, o \in SteadyOutcomes : ConsumeExecute(e, t, o)
    \/ \E c \in Conns, f \in PreparedFrames : ForwardRead(c, f)
    \/ \E c \in Conns : ForwardWrite(c)
    \/ \E c \in Conns : ForwardReply(c)
    \/ \E c \in Conns : mirrorData(c)
    \/ \E c \in Conns : queueSend(c)
    \/ \E c \in Conns : queueAccount(c)

SpecPrepared == InitOneClient /\ [][NextPrepared]_vars

\* The goroutines of the proxy: the scheduler runs each that can take a step.
Controller == loadMigrationInfo \/ ReadyChanRecv

Executor(e, t) ==
    \/ ConsumeRecv(e, t)
    \/ ConsumeLock(e, t)
    \/ \E o \in WriteOutcomes : ConsumeExecute(e, t, o)
    \/ ConsumeDec(e, t)
    \/ ConsumeUnlock(e, t)

Forwarder(c) ==
    \/ ForwardWrite(c)
    \/ mirrorData(c)
    \/ stopTableSet(c)
    \/ stopTableLock(c)
    \/ queueSend(c)
    \/ queueAccount(c)

\* SpecQueue with every goroutine scheduled fairly.  Nothing is assumed of
\* the clients or of the migration service: no frame, update or table on
\* TableMigratedChan has to arrive.
SpecLive ==
    /\ SpecQueue
    /\ WF_vars(Controller)
    /\ \A e \in Gens, t \in Tables : WF_vars(Executor(e, t))
    /\ \A c \in Conns : WF_vars(Forwarder(c))

\* ------------------------------------------------------------------ claims
\* The states of a connection whose client-to-upstream forwarder is running.
Forwarding == {"read", "write", "mirror", "stop", "stopLock", "enqueue",
               "account"}

\* Values sent on ReadyForRedirect so far: those received and the one a
\* closing connection is blocked sending.
signalled == readySignals + Cardinality({c \in Conns : cPc[c] = "signal"})

\* C3 (as claimed): over the proxy's lifetime ReadyForRedirect is signalled
\* at most once (the safety half of "exactly once"), and only once
\* migration_complete is true and origin_connections is 0.
C3_DrainSignalOnce ==
    /\ signalled <= 1
    /\ \A c \in Conns :
          cPc[c] = "signal" => migrationComplete /\ connectionsToSource = 0

\* C7: the handler dials the origin when migration_complete is false at the
\* time it reads the flag and the target otherwise; origin_connections goes
\* up by one exactly when a connection whose upstream is the origin has been
\* dialled, and a connection to the target is never counted; once
\* migration_complete is true it stays true, so that every connection handled
\* from then on goes to the target; and the step that sets it leaves every
\* open connection as it was, its origin forwarders still running.
C7_RoutingByPhase ==
    [][/\ \A c \in Conns :
            /\ (cPc[c] = "handle" /\ cPc'[c] = "dial")
                  => cUp'[c] = (IF migrationComplete THEN "target" ELSE "origin")
            /\ (cPc[c] = "dial" /\ cPc'[c] \in {"incr", "read"})
                  => (cPc'[c] = "incr" <=> cUp[c] = "origin")
            /\ (cPc[c] = "incr" /\ cPc'[c] = "read")
                  => connectionsToSource' = connectionsToSource + 1
       /\ connectionsToSource' > connectionsToSource
             => \E c \in Conns : /\ cPc[c] = "incr" /\ cPc'[c] = "read"
                                 /\ cUp[c] = "origin"
                                 /\ connectionsToSource' = connectionsToSource + 1
       /\ migrationComplete => migrationComplete'
       /\ (~migrationComplete /\ migrationComplete')
             => /\ UNCHANGED <<cPc, cUp, cFrame, connectionsToSource>>
                /\ \A c \in Conns :
                      (cUp[c] = "origin" /\ cPc[c] = "read")
                         => ENABLED ForwardExit(c)
      ]_vars

\* C7's case: Complete has been processed, a connection accepted before it
\* still forwards to the origin and is the only one counted, and a
\* connection handled after it forwards to the target.
C7_Witness ==
    /\ migrationComplete
    /\ connectionsToSource = 1
    /\ \E c, d \in Conns :
          /\ cUp[c] = "origin" /\ cPc[c] \in Forwarding
          /\ cUp[d] = "target" /\ cPc[d] \in Forwarding

\* s is an initial segment of t.
IsPrefix(s, t) == Len(s) <= Len(t) /\ \A i \in 1..Len(s) : s[i] = t[i]

\* The queries of table t the executors have passed to execute, in order.
executed(t) == [i \in 1..Len(execLog[t]) |-> execLog[t][i].q]

\* C1 (as claimed): while a table is gated, that is from the enqueue of an
\* UPDATE, DELETE or TRUNCATE for it made while its step was not
\* LoadingDataComplete until a TableUpdate (or a Start) gives it the step
\* LoadingDataComplete, no executor writes an UPDATE, DELETE or TRUNCATE of
\* that table to the target.
C1_PauseCorrectness ==
    [][\A t \in Tables :
          gated[t] = "gated" =>
             \A i \in (Len(execLog[t]) + 1)..Len(execLog'[t]) :
                ~(execLog'[t][i].wrote /\ execLog'[t][i].q.type \in PauseTypes)
      ]_vars

\* C6 (as claimed): for every table the queries passed to execute are, in
\* order, an initial segment of the queries enqueued for the table: none is
\* overtaken, skipped or taken twice.
C6_MirrorOrder == \A t \in Tables : IsPrefix(executed(t), enqLog[t])

\* The entries of execLog, over all tables, as <<table, index>>.
execEntries == UNION {{<<t, i>> : i \in 1..Len(execLog[t])} : t \in Tables}

\* Table t is open again and nothing is queued for it.
drained(t) ==
    /\ ~tablePaused[t]
    /\ queueSizes[t] = 0
    /\ \A g \in Gens : queues[g][t] = <<>>
    /\ \A e \in Gens : ePc[e][t] \in {"off", "select"}

\* C2 (as claimed): once a table that was paused, with an UPDATE, DELETE or
\* TRUNCATE enqueued for it while its step was not LoadingDataComplete, has
\* been given the step LoadingDataComplete by a TableUpdate, the table
\* eventually leaves the paused state with every queued query passed to the
\* target and its queue size back at 0.
C2_ResumeLiveness ==
    \A t \in Tables :
       (tablePaused[t] /\ gated[t] = "released")
          ~> (drained(t) \/ crashed)

\* The forwarder's positions inside mirrorData.
MirrorPath == {"mirror", "stop", "stopLock", "enqueue", "account"}

\* C5 (as claimed): a frame read from a client is eventually written to the
\* origin, and a forwarder inside the mirror path eventually returns to
\* reading from its client, whatever the table's state, the queue's length
\* and the outcomes of the writes to the target.
C5_OriginUnperturbed ==
    \A c \in Conns :
       /\ (cPc[c] = "write") ~> (cPc[c] # "write" \/ crashed)
       /\ (cPc[c] \in MirrorPath) ~> (cPc[c] = "read" \/ crashed)

\* C9 (as claimed): execute makes at most 5 attempts and sleeps only between
\* attempts: one delay fewer than the attempts made, at most 2000 ms.
C9_RetryBound ==
    /\ lastExec.attempts <= maxAttempts
    /\ lastExec.attempts > 0
          => lastExec.sleepMs <= retryDelayMs * (lastExec.attempts - 1)
    /\ lastExec.sleepMs <= 2000

\* C10 (as claimed): Writes counts the dequeued queries for which some Write
\* succeeded and WriteFails those whose attempts all failed.
C10_WriteAccounting ==
    /\ Writes = Cardinality({p \in execEntries : execLog[p[1]][p[2]].wrote})
    /\ WriteFails = Cardinality({p \in execEntries : ~execLog[p[1]][p[2]].wrote})

\* C8 (as claimed): when the origin's Prepared result passes through the
\* proxy while the PREPARE's stream id is registered, the entry moves from
\* by_stream_id to by_prepared_id; and an EXECUTE of an id the client was
\* given leaves mirrorData on its way to the table's queue, not dropped as
\* unknown-prepared.
C8_PreparedRoundTrip ==
    [][\A c \in Conns :
          /\ (originReply[c] /\ ~originReply'[c] /\ byStreamID)
                => (byPreparedID' /\ ~byStreamID')
          /\ (/\ cPc[c] = "mirror" /\ cPc'[c] # "mirror"
              /\ cFrame[c].op = "execute"
              /\ ~crashed')
                => cPc'[c] = "enqueue"
      ]_vars

\* The bytes src.Read has returned so far.
received == SubSeq(sent, 1, nRead)

C11_ShutdownFromAnyState ==
    /\ (hPc = "shutdown") ~> (shutdown /\ ctlPc = "exit")
    /\ [][(~shutdown /\ shutdown') => UNCHANGED <<readySignals, cPc>>]_vars


\* What the proxy keeps for the migration: the status, the queues and their
\* counters and latches, and the two flags.
MigrationState ==
    <<step, gen, queues, queueSizes, latch, lockHeld, tablePaused,
      migrationComplete, shutdown, ctlPc, ready>>

wellFormed(msg) ==
    msg.envOk /\ (msg.type \in {"Start", "TableUpdate"} => msg.payOk)

\* C12: on the control connection the handler writes back a message only
\* once handleUpdate has returned for it, and what it writes is the message
\* it read, which decoded; a message whose envelope or payload does not
\* decode is never echoed, ends the handler (closing the connection) and
\* leaves the status, the queues, migration_complete and shutdown as they
\* were.
C12_ControlAck ==
    /\ [][(echo' # echo /\ echo' # NoMsg) =>
             /\ hPc = "ack"
             /\ echo' = hMsg
             /\ wellFormed(hMsg)]_vars
    /\ [][(hPc = "read" /\ hMsg' # hMsg /\ ~wellFormed(hMsg')) =>
             /\ hPc' = "closed"
             /\ echo' = NoMsg
             /\ UNCHANGED MigrationState]_vars
    /\ [][hPc = "closed" => (hPc' = "closed" /\ echo' = NoMsg)]_vars
    /\ [][(hPc' = "closed" /\ hPc # "closed") => ~wellFormed(hMsg')]_vars

\* C12: a started proxy has closed the control connection on a Start whose
\* payload did not decode.
C12_Witness ==
    /\ gen > 0
    /\ hPc = "closed"
    /\ hMsg = [type |-> "Start", envOk |-> TRUE, payOk |-> FALSE]
    /\ echo = NoMsg


\* forward, line 347: the header at the head of buffer d announces a body of
\* more than 256 MiB.
oversize(d) ==
    /\ Len(d) >= cassHdrLen
    /\ Uint32(SubSeq(d, 6, 9)) > cassMaxLen

\* C13 (as claimed): when the header of the next buffered frame announces a
\* body of more than 256 MiB, forward does not go on buffering or waiting
\* for the body: its next step ends it.
C13_OversizeTerminates ==
    [][(fPc = "frame" /\ oversize(data)) => fPc' = "closed"]_vars

\* The executors (consumeQueue goroutines) started for table t.
executors(t) == {e \in Gens : ePc[e][t] # "off"}

\* C14 (as claimed): whatever updates the control connection has handled, a
\* repeated Start among them, a table has had one queue made for it and has
\* one executor, and no query sits in a queue other than the table's.
C14_QueueLifecycle ==
    \A t \in Tables :
        /\ gen <= 1
        /\ Cardinality(executors(t)) <= 1
        /\ \A g \in Gens : g # gen => queues[g][t] = <<>>

\* mirrorData drops the mirror of frame f: it is compressed, or names a table
\* the status does not have, or is an EXECUTE of an id never observed.
dropped(f) ==
    \/ compressionFlag(f) = 1
    \/ f.table = AbsentTable
    \/ f.op = "execute" /\ ~byPreparedID

\* The step in which the forwarder of c is done with mirrorData: it returns,
\* or panics.
mirrorReturns(c) ==
    /\ cPc[c] = "mirror"
    /\ cPc'[c] # "mirror" \/ (crashed' /\ ~crashed /\ hPc' = hPc)

\* C15 (as claimed): when mirrorData is done with a frame whose mirror is
\* dropped, the forwarder is back at reading the next frame, the proxy has
\* not crashed, nothing has been enqueued or written to the target, no queue
\* has been made, and Reads, Writes and WriteFails are what they were.
C15_DroppedMirrors ==
    [][\A c \in Conns :
          (mirrorReturns(c) /\ dropped(cFrame[c]))
            => /\ cPc'[c] = "read"
               /\ ~crashed'
               /\ UNCHANGED <<enqLog, execLog, lastExec, queues, gen,
                              queueSizes, Reads, Writes, WriteFails>>
      ]_vars

\* The latch of table t is held, and not by an executor between its Lock and
\* its Unlock (consumeQueue, lines 582-601): a forwarder took it in stopTable.
heldByPause(t) ==
    /\ gen > 0
    /\ latch[gen][t]
    /\ \A e \in Gens : ePc[e][t] \notin {"exec", "dec", "unlock"}

\* The paused flag of a table is set only by a forwarder mirroring an UPDATE,
\* DELETE or TRUNCATE for it, which goes to stopTable only from a check that
\* found the table's step short of LoadingDataComplete.
PauseOnlyByWrites ==
    [][\A t \in Tables :
          /\ (tablePaused'[t] /\ ~tablePaused[t]) =>
                \E c \in Conns :
                   /\ cPc[c] = "stop"
                   /\ cFrame[c].table = t
                   /\ queryType(cFrame[c].op) \in PauseTypes
          /\ \A c \in Conns :
                (cPc'[c] = "stop" /\ cPc[c] # "stop" /\ cFrame[c].table = t) =>
                   /\ queryType(cFrame[c].op) \in PauseTypes
                   /\ step[t] # LoadingDataComplete
      ]_vars

\* C16 (as claimed): a table's paused flag becomes true only through a
\* mirrored UPDATE, DELETE or TRUNCATE checked while the table's step was not
\* LoadingDataComplete, never through another request; and on a table that
\* is not paused no forwarder holds the latch, so that the executor writes
\* an enqueued INSERT to the target without a TableUpdate having to arrive.
C16_PauseTrigger ==
    /\ PauseOnlyByWrites
    /\ [](\A t \in Tables : heldByPause(t) => tablePaused[t])

\* The length the header at the head of buffer d gives its frame: 9 and the
\* big-endian value of bytes [5..9).
headerLength(d) ==
    9 + d[6] * 16777216 + d[7] * 65536 + d[8] * 256 + d[9]

pausing(t) ==
    {c \in Conns : cPc[c] \in {"stop", "stopLock"} /\ cFrame[c].table = t}

\* C18 (as claimed): of the forwarders that mirror UPDATE, DELETE or
\* TRUNCATE for a table at the same time at most one goes through stopTable,
\* and none is at the Lock of stopTable while the latch is held by an
\* earlier pause, where it would wait for the resume.
C18_PauseIdempotent ==
    \A t \in Tables :
        /\ Cardinality(pausing(t)) <= 1
        /\ \A c \in pausing(t) : cPc[c] = "stopLock" => ~heldByPause(t)

\* The connections whose handler has dialled the origin and whose forwarder
\* from the client to the origin has not returned.
onOrigin ==
    {c \in Conns : cUp[c] = "origin" /\ cPc[c] \in {"incr", "decr"} \cup Forwarding}

\* C19 (as claimed): the count of connections to the origin is never
\* negative and is, in every state, the number of connections that have
\* dialled the origin and whose client-to-origin forwarder has not exited.
C19_OriginCount ==
    /\ connectionsToSource >= 0
    /\ connectionsToSource = Cardinality(onOrigin)

\* The count is the number of connections between their incrementSources
\* and their decrementSources.
CountedOnce ==
    /\ connectionsToSource >= 0
    /\ connectionsToSource =
          Cardinality({c \in Conns : cUp[c] = "origin" /\ cPc[c] \in {"decr"} \cup Forwarding})

\* The queries enqueued for table t that its executor has not finished: those
\* not yet executed, and those executed in an iteration of consumeQueue that
\* has not come to its end.
unfinished(t) ==
    Len(enqLog[t]) - Len(execLog[t])
        + Cardinality({e \in Gens : ePc[e][t] \in {"dec", "unlock"}})

\* No forwarder is inside queueQuery for table t and no executor of the
\* table is inside an iteration.
quiet(t) ==
    /\ \A c \in Conns :
          cPc[c] \in {"enqueue", "account"} => cFrame[c].table # t
    /\ \A e \in Gens : ePc[e][t] \in {"off", "select"}

\* C20 (as claimed): a table's queue-size counter is never negative, never
\* more than the number of queries enqueued for the table and not finished,
\* and equal to that number when no enqueue or execute is in progress.
C20_QueueSize ==
    \A t \in Tables :
        /\ queueSizes[t] >= 0
        /\ queueSizes[t] <= unfinished(t)
        /\ quiet(t) => queueSizes[t] = unfinished(t)

\* The step in which the controller, having received table t from
\* TableMigratedChan, runs startTable: the latch of t is unlocked by something
\* other than an executor, or the Unlock finds the latch not held, which is
\* fatal.
resumes(t) ==
    /\ gen > 0
    /\ gen' = gen
    /\ ePc' = ePc
    /\ cPc' = cPc
    /\ hPc' = hPc
    /\ \/ latch[gen][t] /\ ~latch'[gen][t]
       \/ crashed' /\ ~crashed

\* C21 (as claimed): a resume releases the latch of a table only when the
\* table is paused and it is the pause that holds the latch; it never
\* unlocks a latch that is not held and never takes the latch from an
\* executor in the middle of an execute.
C21_LatchRelease ==
    [][\A t \in Tables :
          resumes(t) =>
             /\ ~crashed'
             /\ tablePaused[t]
             /\ heldByPause(t)
      ]_vars

\* The connections whose forwarder is in the send on ReadyForRedirect
\* (decrementSources, line 662), waiting for a reader.
signalling == {c \in Conns : cPc[c] = "signal"}

\* C22 (as claimed): no goroutine waits in a channel send with p.lock held:
\* while a forwarder waits for a reader of ReadyForRedirect the lock is free
\* for queueQuery, consumeQueue and the decrementSources of other
\* connections.
C22_SignalNeverStalls ==
    signalling # {} => ~lockHeld

=============================================================================
